---- MODULE Spec2Model ----
(***************************************************************************)
(* Model of the news ingestion pipeline: NoviceContentCreator              *)
(* (main-cli.py), the scraper (news_scraper.py), the database manager      *)
(* (database_manager.py) and the key/site constants (constants.py).        *)
(*                                                                         *)
(* Strings are sequences of tokens, so that substring tests, concatenation *)
(* and strip() are computed and not assumed.  Python's None is None for    *)
(* the integer-valued fields and NoneStr for the string-valued ones.       *)
(***************************************************************************)
EXTENDS Integers, Sequences, FiniteSets, TLC

\* ------------------------------------------------------------------ bounds
\* most links one homepage listing carries
MaxLinks == 2
\* the count of consecutive non-freshest priority updates saturates here
MaxRun == 2

\* --------------------------------------------------------------- constants
None == -1
NoneStr == <<"None">>

RTVSLO == "rtvslo"

\* SupportedSites.all(): tuple('rtvslo') is the tuple of its characters
SupportedSites_all == <<"r", "t", "v", "s", "l", "o">>

home_page == "https://www.rtvslo.si"

\* the article URLs a homepage can list: home_page + href
URLs ==
    { <<home_page, "/sport/", "a">>,
      <<home_page, "/svet/", "b">>,
      <<home_page, "/oglasno-sporocilo/", "c">> }

\* a datetime is <<year, month, day, hour, minute>>; None where one is due
NoneDate == <<>>

\* MONTH_MAPPING: the month names, letter by letter
MONTH_MAPPING ==
    (<<"j", "a", "n", "u", "a", "r">> :> 1) @@
    (<<"f", "e", "b", "r", "u", "a", "r">> :> 2) @@
    (<<"m", "a", "r", "e", "c">> :> 3) @@
    (<<"a", "p", "r", "i", "l">> :> 4) @@
    (<<"m", "a", "j">> :> 5) @@
    (<<"j", "u", "n", "i", "j">> :> 6) @@
    (<<"j", "u", "l", "i", "j">> :> 7) @@
    (<<"a", "v", "g", "u", "s", "t">> :> 8) @@
    (<<"s", "e", "p", "t", "e", "m", "b", "e", "r">> :> 9) @@
    (<<"o", "k", "t", "o", "b", "e", "r">> :> 10) @@
    (<<"n", "o", "v", "e", "m", "b", "e", "r">> :> 11) @@
    (<<"d", "e", "c", "e", "m", "b", "e", "r">> :> 12)

\* --------------------------------------------------------- string helpers
\* Python's `sub in s`
Contains(sub, s) ==
    \E i \in 1..(Len(s) + 1) :
        /\ i + Len(sub) - 1 <= Len(s)
        /\ SubSeq(s, i, i + Len(sub) - 1) = sub

RECURSIVE lstrip(_)
lstrip(s) == IF s # <<>> /\ Head(s) = " " THEN lstrip(Tail(s)) ELSE s

RECURSIVE rstrip(_)
rstrip(s) ==
    IF s # <<>> /\ s[Len(s)] = " " THEN rstrip(SubSeq(s, 1, Len(s) - 1)) ELSE s

\* Python's str.strip()
strip(s) == rstrip(lstrip(s))

\* Python's str.lower(), for the letters month names are written with
lower(s) ==
    LET upper == ("A" :> "a") @@ ("D" :> "d") @@ ("F" :> "f") @@
                 ("J" :> "j") @@ ("M" :> "m") @@ ("N" :> "n") @@
                 ("O" :> "o") @@ ("S" :> "s")
    IN  [i \in 1..Len(s) |->
            IF s[i] \in DOMAIN upper THEN upper[s[i]] ELSE s[i]]

\* Python's int() of a string of decimal digits
RECURSIVE int(_)
int(s) ==
    LET digit == ("0" :> 0) @@ ("1" :> 1) @@ ("2" :> 2) @@ ("3" :> 3) @@
                 ("4" :> 4) @@ ("5" :> 5) @@ ("6" :> 6) @@ ("7" :> 7) @@
                 ("8" :> 8) @@ ("9" :> 9)
    IN  IF Len(s) = 1 THEN digit[s[1]]
        ELSE 10 * int(SubSeq(s, 1, Len(s) - 1)) + digit[s[Len(s)]]

\* the days of a month of the calendar datetime() accepts
days_in_month(year, month) ==
    IF month = 2
    THEN IF year % 4 = 0 /\ (year % 100 # 0 \/ year % 400 = 0) THEN 29 ELSE 28
    ELSE IF month \in {4, 6, 9, 11} THEN 30 ELSE 31

\* datetime(year, month, day, hour, minute): ValueError out of range
datetime(year, month, day, hour, minute) ==
    IF /\ year \in 1..9999
       /\ month \in 1..12
       /\ day \in 1..days_in_month(year, month)
       /\ hour \in 0..23
       /\ minute \in 0..59
    THEN [raised |-> FALSE, value |-> <<year, month, day, hour, minute>>]
    ELSE [raised |-> TRUE, value |-> NoneDate]

\* ------------------------------------------------- scraper construction
\* NewsScraper.__init__: assigns skip_substring = None on the object
NewsScraper_init(self, link_classes, text_classes, hp) ==
    [self EXCEPT !.skip_substring = NoneStr,
                 !.link_classes = link_classes,
                 !.text_classes = text_classes,
                 !.home_page = hp]

\* ScraperRtvSlo.__init__: sets its two fields, then runs the base __init__
ScraperRtvSlo_init(link_classes, text_classes, hp, special_identifier, skip) ==
    LET blank == [skip_substring |-> NoneStr, special_identifier |-> NoneStr,
                  link_classes |-> {}, text_classes |-> <<>>,
                  home_page |-> NoneStr]
        s1 == [blank EXCEPT !.special_identifier = special_identifier]
        s2 == [s1 EXCEPT !.skip_substring = skip]
    IN  NewsScraper_init(s2, link_classes, text_classes, hp)

\* news_scraper_factory(site)
news_scraper_factory(site) ==
    IF site = RTVSLO
    THEN [kind |-> "scraper",
          obj |-> ScraperRtvSlo_init({"xl-news", "md-news"},
                                     << <<".article-header", NoneStr>>,
                                        <<".article-body", <<"p">> >> >>,
                                     <<home_page>>,
                                     <<"aktualno">>,
                                     <<"/oglasno-sporocilo/">>)]
    ELSE IF \A i \in 1..Len(SupportedSites_all) : SupportedSites_all[i] # site
         THEN [kind |-> "ValueError"]
         ELSE [kind |-> "None"]

\* ------------------------------------------------------ article documents
\* What re.findall returns for one match of the date pattern: the groups
\* (day, month word, year, hour, minute), each a string of characters.
\* "3. marec 2024 ob 10.15" and "3. marec 2024 ob 14.40"
match_1015 ==
    << <<"3">>, <<"m", "a", "r", "e", "c">>, <<"2", "0", "2", "4">>,
       <<"1", "0">>, <<"1", "5">> >>
match_1440 ==
    << <<"3">>, <<"m", "a", "r", "e", "c">>, <<"2", "0", "2", "4">>,
       <<"1", "4">>, <<"4", "0">> >>

\* An article document: the text of the .article-header region (NoneStr when
\* the region is absent), the texts of the <p> elements of .article-body
\* (<<NoneStr>> when the region is absent), whether the publish-meta div is
\* there, the matches of the date pattern in its text, in order, and the
\* <img> elements of the two regions.
Pages ==
    { [header |-> <<"h">>, body |-> << <<"p">> >>, meta |-> TRUE,
       dates |-> <<match_1015, match_1440>>,
       header_imgs |-> <<>>, body_imgs |-> <<>>],
      [header |-> <<"h">>, body |-> << <<"p">> >>, meta |-> TRUE,
       dates |-> <<>>, header_imgs |-> <<>>, body_imgs |-> <<>>],
      [header |-> NoneStr, body |-> <<NoneStr>>, meta |-> TRUE,
       dates |-> <<match_1015>>, header_imgs |-> <<>>, body_imgs |-> <<>>],
      [header |-> <<"h">>, body |-> << <<"p">> >>, meta |-> FALSE,
       dates |-> <<>>, header_imgs |-> <<>>, body_imgs |-> <<>>] }

RECURSIVE join_paragraphs(_)
join_paragraphs(ps) ==
    IF ps = <<>> THEN <<>> ELSE Head(ps) \o <<" ">> \o join_paragraphs(Tail(ps))

\* ScraperRtvSlo.extract_text_from_url, for text_classes
\* {'.article-header': None, '.article-body': 'p'}
extract_text_from_url(page) ==
    LET t1 == IF page.header = NoneStr THEN <<>> ELSE page.header \o <<" ">>
        t2 == IF page.body = <<NoneStr>> THEN t1
              ELSE t1 \o join_paragraphs(page.body)
    IN  IF Len(t2) = 0 THEN [text |-> <<>>, success |-> FALSE]
        ELSE [text |-> strip(t2), success |-> TRUE]

\* ScraperRtvSlo.format_date; MONTH_MAPPING[month_name] raises KeyError
\* for a word that is no month name
format_date(match) ==
    LET day == int(match[1])
        month_name == lower(match[2])
        year == int(match[3])
        hour == int(match[4])
        minute == int(match[5])
    IN  IF month_name \notin DOMAIN MONTH_MAPPING
        THEN [raised |-> TRUE, value |-> NoneDate]
        ELSE datetime(year, MONTH_MAPPING[month_name], day, hour, minute)

\* variant: the first match is taken whatever the number of matches
extract_datetime_first_match(page) ==
    LET matches == page.dates
    IN  IF ~page.meta THEN [raised |-> TRUE, value |-> NoneDate]
        ELSE IF matches = <<>> THEN [raised |-> FALSE, value |-> NoneDate]
        ELSE format_date(matches[1])

\* ScraperRtvSlo.extract_datetime; raises AttributeError when the
\* publish-meta div is missing (find returns None)
extract_datetime(page) ==
    LET matches == page.dates
    IN  IF ~page.meta THEN [raised |-> TRUE, value |-> NoneDate]
        ELSE IF matches = <<>> THEN [raised |-> FALSE, value |-> NoneDate]
        ELSE IF Len(matches) > 1 THEN format_date(matches[2])
        ELSE format_date(matches[1])

\* ScraperRtvSlo.download_imgs_from_url: the sources requested, in order.
\* article_divs are the regions in document order; each turn of the loop
\* over them assigns img_tags anew.  An <img> is [class, src], src NoneStr
\* when the attribute is missing.
RECURSIVE img_tags_after(_, _)
img_tags_after(article_divs, img_tags) ==
    IF article_divs = <<>> THEN img_tags
    ELSE LET no_class(img) == ~img.class
         IN  img_tags_after(Tail(article_divs),
                            [none |-> FALSE,
                             tags |-> SelectSeq(Head(article_divs), no_class)])

download_imgs_from_url(page) ==
    LET article_divs ==
            (IF page.header = NoneStr THEN <<>> ELSE <<page.header_imgs>>) \o
            (IF page.body = <<NoneStr>> THEN <<>> ELSE <<page.body_imgs>>)
        img_tags == img_tags_after(article_divs, [none |-> TRUE, tags |-> <<>>])
        wanted(img) == ~(img.src = NoneStr \/ Head(img.src) = "data:image")
        requested == SelectSeq(img_tags.tags, wanted)
    IN  IF img_tags.none THEN <<>>
        ELSE [i \in 1..Len(requested) |-> requested[i].src]

\* NewsScraper.get_text_and_save_imgs_from_url: load_url opens a browser;
\* quit is reached only on the success path.  leaked = the browser opened by
\* this call is still open when the call is left; imgs = the image sources
\* requested and saved.
get_text_and_save_imgs_from_url(page) ==
    LET te == extract_text_from_url(page)
        dt == extract_datetime(page)
    IN  IF ~te.success
        THEN [raised |-> FALSE, text |-> <<>>, date |-> NoneDate,
              success |-> FALSE, leaked |-> 1, imgs |-> <<>>]
        ELSE IF dt.raised
        THEN [raised |-> TRUE, text |-> <<>>, date |-> NoneDate,
              success |-> FALSE, leaked |-> 1, imgs |-> <<>>]
        ELSE [raised |-> FALSE, text |-> te.text, date |-> dt.value,
              success |-> TRUE, leaked |-> 0,
              imgs |-> download_imgs_from_url(page)]

\* ------------------------------------------------------------ repository
\* The News table: for every URL the rows carrying it, in insertion order.
\* PostgresDbManager.get_priority_for_url: SELECT Priority ... fetchone()
get_priority_for_url(table, url) ==
    IF table[url] = <<>> THEN None ELSE table[url][1].Priority

\* variant: the existence query never finds a row
check_if_url_exists_never(table, url) == 0

\* PostgresDbManager.check_if_url_exists: SELECT COUNT(*)
check_if_url_exists(table, url) == Len(table[url])

\* variant: the UPDATE has no WHERE clause
update_priority_every_row(table, url, new_priority) ==
    [u \in DOMAIN table |->
        [i \in 1..Len(table[u]) |->
            [table[u][i] EXCEPT !.Priority = new_priority]]]

\* variant: the UPDATE is never committed
update_priority_no_commit(table, url, new_priority) == table

\* PostgresDbManager.update_priority: UPDATE News SET Priority WHERE Url
update_priority(table, url, new_priority) ==
    [table EXCEPT ![url] =
        [i \in 1..Len(table[url]) |->
            [table[url][i] EXCEPT !.Priority = new_priority]]]

\* variant: the INSERT is never committed
write_to_database_no_commit(table, entry) == table

\* PostgresDbManager.write_to_database: INSERT INTO News
write_to_database(table, entry) ==
    [table EXCEPT ![entry.Url] = Append(table[entry.Url], entry)]

\* ------------------------------------------------------- priority engine
\* variant: the rule for a current priority of 1 is missing
determine_new_priority_no_rule4(current_priority, is_freshest) ==
    IF is_freshest THEN 0
    ELSE IF current_priority = None THEN 2
    ELSE IF current_priority = 0 /\ ~is_freshest THEN 1
    ELSE current_priority

\* variant: the rules for 0 and 1 fall through one into the other
determine_new_priority_fallthrough(current_priority, is_freshest) ==
    IF is_freshest THEN 0
    ELSE IF current_priority = None THEN 2
    ELSE IF current_priority = 0 /\ ~is_freshest THEN 2
    ELSE IF current_priority = 1 /\ ~is_freshest THEN 2
    ELSE current_priority

\* variant: the rule for a URL without a stored priority is missing
determine_new_priority_no_rule2(current_priority, is_freshest) ==
    IF is_freshest THEN 0
    ELSE IF current_priority = 0 /\ ~is_freshest THEN 1
    ELSE IF current_priority = 1 /\ ~is_freshest THEN 2
    ELSE current_priority

\* NoviceContentCreator.determine_new_priority
determine_new_priority(current_priority, is_freshest) ==
    IF is_freshest THEN 0
    ELSE IF current_priority = None THEN 2
    ELSE IF current_priority = 0 /\ ~is_freshest THEN 1
    ELSE IF current_priority = 1 /\ ~is_freshest THEN 2
    ELSE current_priority

\* dict.fromkeys(KEYS.get_all_keys())
fromkeys ==
    [Url |-> NoneStr, Title |-> NoneStr, Summary |-> NoneStr,
     DateTime |-> NoneDate, FullText |-> NoneStr, Priority |-> None]

\* the (headline, summary) pairs the Summarizer collaborator can return
SummarizerResults == { << <<"headline">>, <<"summary">> >> }

\* ------------------------------------------------------------------ state
VARIABLES
    db,             \* the News table: URL -> sequence of rows
    news_scraper,   \* the scraper object built by news_scraper_factory
    connOpen,       \* the database connection of this process is open
    browsers,       \* headless browser sessions of this process still open
    pc,             \* position of the process in __main__ / create_content
    links,          \* the dict extract_urls_from_homepage returned
    article_urls,   \* its items not yet finished, <<url, freshest>>
    input_to_base,  \* the record being assembled for the link in hand
    log,            \* calls made by the current cycle, in order
    extraction,     \* per URL: how its latest content extraction ended
    run,            \* per URL: consecutive non-freshest priority updates
                    \* since it was last listed freshest (None: never was)
    homepage,       \* SpecResume: the links the homepage carries throughout
    resumed,        \* SpecResume: the previous process raised or was killed
    site,           \* SpecScraper: the site news_scraper_factory is asked for
    soup,           \* SpecScraper: the document the scraper has loaded
    called,         \* SpecScraper: the function applied last
    returned        \* SpecScraper: what it returned

\* what a poll cycle never touches
aside == <<homepage, resumed, site, soup, called, returned>>

\* the pipeline
pipeline == <<db, news_scraper, connOpen, browsers, pc, links, article_urls,
              input_to_base, log, extraction, run>>

vars == <<db, news_scraper, connOpen, browsers, pc, links, article_urls,
          input_to_base, log, extraction, run, homepage, resumed, site, soup,
          called, returned>>

Bool == {TRUE, FALSE}

RECURSIVE ListingsOfLen(_)
ListingsOfLen(n) ==
    IF n = 0 THEN { <<>> }
    ELSE { Append(l, <<u, f>>) :
             l \in ListingsOfLen(n - 1), u \in URLs, f \in Bool }

\* extract_urls_from_homepage returns a dict: every URL is a key at most once
Distinct(l) == \A i, j \in 1..Len(l) : i # j => l[i][1] # l[j][1]

Listings ==
    { l \in UNION { ListingsOfLen(n) : n \in 0..MaxLinks } : Distinct(l) }

\* the loop variables of create_content: `for url, priority in ...`
url == article_urls[1][1]
priority == article_urls[1][2]

\* `self.news_scraper.skip_substring and self.news_scraper.skip_substring in url`
skip_link(scraper, u) ==
    /\ scraper.skip_substring # NoneStr
    /\ scraper.skip_substring # <<>>
    /\ Contains(scraper.skip_substring, u)

Min(a, b) == IF a < b THEN a ELSE b

\* the run counter of a stored URL after it was listed again
run_after(old, fresh) ==
    IF fresh THEN 0
    ELSE IF old = None THEN None
    ELSE Min(old + 1, MaxRun)

\* __main__ has built scraper, summarizer and database; the table is empty
InitPipeline ==
    /\ db = [u \in URLs |-> <<>>]
    /\ news_scraper = news_scraper_factory(RTVSLO).obj
    /\ connOpen = TRUE
    /\ browsers = 0
    /\ pc = "ready"
    /\ links = <<>>
    /\ article_urls = <<>>
    /\ input_to_base = fromkeys
    /\ log = <<>>
    /\ extraction = [u \in URLs |-> "never"]
    /\ run = [u \in URLs |-> None]

Init ==
    /\ InitPipeline
    /\ homepage = <<>>
    /\ resumed = FALSE
    /\ site = RTVSLO
    /\ soup = NoneStr
    /\ called = "none"
    /\ returned = NoneStr

\* create_content, line 20: the homepage is read
create_content_begin ==
    /\ pc \in {"ready", "closed"}
    /\ \E l \in Listings : links' = l /\ article_urls' = l
    /\ pc' = "loop"
    /\ log' = <<>>
    /\ input_to_base' = fromkeys
    /\ UNCHANGED <<db, news_scraper, connOpen, browsers, extraction, run>>
    /\ UNCHANGED aside

\* variant: the priority read from the table is returned for a new URL
manage_priority_returns_current(table, u, fresh) ==
    LET current_priority == get_priority_for_url(table, u)
        new_priority == determine_new_priority(current_priority, fresh)
        decided == <<"decide", u, current_priority, fresh, new_priority>>
    IN  IF check_if_url_exists(table, u) # 0
        THEN [skip |-> TRUE, new_priority |-> None,
              db |-> update_priority(table, u, new_priority),
              calls |-> <<decided, <<"update_priority", u, new_priority>> >>]
        ELSE [skip |-> FALSE, new_priority |-> current_priority,
              db |-> table,
              calls |-> <<decided>>]

\* variant: the early return for an existing row is missing
manage_priority_no_return(table, u, fresh) ==
    LET current_priority == get_priority_for_url(table, u)
        new_priority == determine_new_priority(current_priority, fresh)
        decided == <<"decide", u, current_priority, fresh, new_priority>>
    IN  IF check_if_url_exists(table, u) # 0
        THEN [skip |-> FALSE, new_priority |-> new_priority,
              db |-> update_priority(table, u, new_priority),
              calls |-> <<decided, <<"update_priority", u, new_priority>> >>]
        ELSE [skip |-> FALSE, new_priority |-> new_priority,
              db |-> table,
              calls |-> <<decided>>]

\* NoviceContentCreator.manage_priority: the value returned (skip,
\* new_priority), the table it leaves and the calls it made
manage_priority(table, u, fresh) ==
    LET current_priority == get_priority_for_url(table, u)
        new_priority == determine_new_priority(current_priority, fresh)
        decided == <<"decide", u, current_priority, fresh, new_priority>>
    IN  IF check_if_url_exists(table, u) # 0
        THEN [skip |-> TRUE, new_priority |-> None,
              db |-> update_priority(table, u, new_priority),
              calls |-> <<decided, <<"update_priority", u, new_priority>> >>]
        ELSE [skip |-> FALSE, new_priority |-> new_priority,
              db |-> table,
              calls |-> <<decided>>]

\* create_content, lines 22-31: the next link of the loop is taken; it is
\* passed over for its skip substring, or manage_priority runs for it and
\* either the loop continues (row exists) or the record is started
link ==
    /\ pc = "loop"
    /\ article_urls # <<>>
    /\ IF skip_link(news_scraper, url)
       THEN /\ log' = Append(log, <<"skip", url>>)
            /\ article_urls' = Tail(article_urls)
            /\ UNCHANGED <<db, pc, input_to_base, run>>
       ELSE /\ connOpen
            /\ LET m == manage_priority(db, url, priority)
               IN  /\ db' = m.db
                   /\ log' = log \o m.calls
                   /\ IF m.skip
                      THEN /\ article_urls' = Tail(article_urls)
                           /\ run' = [run EXCEPT ![url] =
                                        run_after(run[url], priority)]
                           /\ UNCHANGED <<pc, input_to_base>>
                      ELSE /\ input_to_base' =
                                 [fromkeys EXCEPT !.Priority = m.new_priority]
                           /\ pc' = "extract"
                           /\ UNCHANGED <<article_urls, run>>
    /\ UNCHANGED <<news_scraper, connOpen, browsers, links, extraction>>
    /\ UNCHANGED aside

\* a Repository call of manage_priority raises (always on a closed
\* connection); the exception leaves create_content
manage_priority_raises ==
    /\ pc = "loop"
    /\ article_urls # <<>>
    /\ ~skip_link(news_scraper, url)
    /\ \E call \in {"get_priority_for_url", "check_if_url_exists",
                    "update_priority"} :
          /\ call = "update_priority" =>
                connOpen /\ check_if_url_exists(db, url) # 0
          /\ log' = Append(log, <<"raise", url, call>>)
    /\ pc' = "aborted"
    /\ UNCHANGED <<db, news_scraper, connOpen, browsers, links, article_urls,
                   input_to_base, extraction, run>>
    /\ UNCHANGED aside

\* variant: the `continue` after a reported failure is missing
extract_outcome_no_continue(page, record, u) ==
    LET r == get_text_and_save_imgs_from_url(page)
    IN  IF r.raised
        THEN [pc |-> "aborted", continue |-> FALSE, record |-> record,
              call |-> <<"raise", u, "extract_datetime">>,
              ended |-> "raised", leaked |-> r.leaked]
        ELSE [pc |-> "summarize", continue |-> FALSE,
              record |-> [record EXCEPT !.FullText = r.text,
                                        !.DateTime = r.date,
                                        !.Url = u],
              call |-> <<"extract", u, r.success>>,
              ended |-> IF r.success THEN "ok" ELSE "failed",
              leaked |-> r.leaked]

\* variant: a reported failure leaves create_content as an exception
extract_outcome_raises(page, record, u) ==
    LET r == get_text_and_save_imgs_from_url(page)
    IN  IF r.raised
        THEN [pc |-> "aborted", continue |-> FALSE, record |-> record,
              call |-> <<"raise", u, "extract_datetime">>,
              ended |-> "raised", leaked |-> r.leaked]
        ELSE IF ~r.success
        THEN [pc |-> "aborted", continue |-> FALSE, record |-> fromkeys,
              call |-> <<"extract", u, FALSE>>,
              ended |-> "failed", leaked |-> r.leaked]
        ELSE [pc |-> "summarize", continue |-> FALSE,
              record |-> [record EXCEPT !.FullText = r.text,
                                        !.DateTime = r.date,
                                        !.Url = u],
              call |-> <<"extract", u, TRUE>>,
              ended |-> "ok", leaked |-> r.leaked]

\* create_content, lines 32-38, for the document the browser loaded: where
\* the loop goes (an exception of the extraction leaves create_content, a
\* reported failure continues with the next link), the record in hand, and
\* what get_text_and_save_imgs_from_url did
extract_outcome(page, record, u) ==
    LET r == get_text_and_save_imgs_from_url(page)
    IN  IF r.raised
        THEN [pc |-> "aborted", continue |-> FALSE, record |-> record,
              call |-> <<"raise", u, "extract_datetime">>,
              ended |-> "raised", leaked |-> r.leaked]
        ELSE IF ~r.success
        THEN [pc |-> "loop", continue |-> TRUE, record |-> fromkeys,
              call |-> <<"extract", u, FALSE>>,
              ended |-> "failed", leaked |-> r.leaked]
        ELSE [pc |-> "summarize", continue |-> FALSE,
              record |-> [record EXCEPT !.FullText = r.text,
                                        !.DateTime = r.date,
                                        !.Url = u],
              call |-> <<"extract", u, TRUE>>,
              ended |-> "ok", leaked |-> r.leaked]

\* create_content, lines 32-38: content extraction of the link in hand
extract ==
    /\ pc = "extract"
    /\ \E page \in Pages :
         LET o == extract_outcome(page, input_to_base, url)
         IN  /\ browsers' = browsers + o.leaked
             /\ log' = Append(log, o.call)
             /\ pc' = o.pc
             /\ input_to_base' = o.record
             /\ article_urls' =
                   IF o.continue THEN Tail(article_urls) ELSE article_urls
             /\ extraction' = [extraction EXCEPT ![url] = o.ended]
    /\ UNCHANGED <<db, news_scraper, connOpen, links, run>>
    /\ UNCHANGED aside

\* create_content, line 41: the Summarizer returns
summarize ==
    /\ pc = "summarize"
    /\ \E hs \in SummarizerResults :
          input_to_base' = [input_to_base EXCEPT !.Title = hs[1],
                                                 !.Summary = hs[2]]
    /\ log' = Append(log, <<"summarize", url>>)
    /\ pc' = "write"
    /\ UNCHANGED <<db, news_scraper, connOpen, browsers, links, article_urls,
                   extraction, run>>
    /\ UNCHANGED aside

\* variant: the exception of the Summarizer is caught and the loop goes on
summarize_raises_swallowed ==
    /\ pc = "summarize"
    /\ log' = Append(log, <<"raise", url, "get_headline_and_summary">>)
    /\ pc' = "loop"
    /\ article_urls' = Tail(article_urls)
    /\ UNCHANGED <<db, news_scraper, connOpen, browsers, links,
                   input_to_base, extraction, run>>
    /\ UNCHANGED aside

\* create_content, line 41: the Summarizer raises
summarize_raises ==
    /\ pc = "summarize"
    /\ log' = Append(log, <<"raise", url, "get_headline_and_summary">>)
    /\ pc' = "aborted"
    /\ UNCHANGED <<db, news_scraper, connOpen, browsers, links, article_urls,
                   input_to_base, extraction, run>>
    /\ UNCHANGED aside

\* variant: the loop goes to the next link straight after the insert
write_without_pause ==
    /\ pc = "write"
    /\ connOpen
    /\ db' = write_to_database(db, input_to_base)
    /\ log' = Append(log, <<"write_to_database", url, input_to_base.Priority>>)
    /\ run' = [run EXCEPT ![url] = IF priority THEN 0 ELSE None]
    /\ pc' = "loop"
    /\ article_urls' = Tail(article_urls)
    /\ input_to_base' = fromkeys
    /\ UNCHANGED <<news_scraper, connOpen, browsers, links, extraction>>
    /\ UNCHANGED aside

\* create_content, lines 43-44: the record is inserted
write ==
    /\ pc = "write"
    /\ connOpen
    /\ db' = write_to_database(db, input_to_base)
    /\ log' = Append(log, <<"write_to_database", url, input_to_base.Priority>>)
    /\ run' = [run EXCEPT ![url] = IF priority THEN 0 ELSE None]
    /\ pc' = "sleep"
    /\ UNCHANGED <<news_scraper, connOpen, browsers, links, article_urls,
                   input_to_base, extraction>>
    /\ UNCHANGED aside

\* create_content, line 43: the insert raises, nothing is committed
write_raises ==
    /\ pc = "write"
    /\ log' = Append(log, <<"raise", url, "write_to_database">>)
    /\ pc' = "aborted"
    /\ UNCHANGED <<db, news_scraper, connOpen, browsers, links, article_urls,
                   input_to_base, extraction, run>>
    /\ UNCHANGED aside

\* create_content, line 45: the pause after an insert
sleep ==
    /\ pc = "sleep"
    /\ log' = Append(log, <<"sleep", url>>)
    /\ article_urls' = Tail(article_urls)
    /\ input_to_base' = fromkeys
    /\ pc' = "loop"
    /\ UNCHANGED <<db, news_scraper, connOpen, browsers, links, extraction,
                   run>>
    /\ UNCHANGED aside

\* create_content, line 47: the loop is over
close_connection ==
    /\ pc = "loop"
    /\ article_urls = <<>>
    /\ connOpen' = FALSE
    /\ log' = Append(log, <<"close_connection", NoneStr>>)
    /\ pc' = "closed"
    /\ UNCHANGED <<db, news_scraper, browsers, links, article_urls,
                   input_to_base, extraction, run>>
    /\ UNCHANGED aside

\* the process is killed in the middle of a cycle: what it held in memory
\* is gone, its connection and browsers go with it, the table stays
terminate ==
    /\ pc \in {"loop", "extract", "summarize", "write", "sleep"}
    /\ pc' = "terminated"
    /\ connOpen' = FALSE
    /\ browsers' = 0
    /\ links' = <<>>
    /\ article_urls' = <<>>
    /\ input_to_base' = fromkeys
    /\ log' = <<>>
    /\ UNCHANGED <<db, news_scraper, extraction, run>>
    /\ UNCHANGED aside

\* __main__ of a new process: scraper, summarizer and database are built
main ==
    /\ pc \in {"closed", "aborted", "terminated"}
    /\ news_scraper' = news_scraper_factory(RTVSLO).obj
    /\ connOpen' = TRUE
    /\ browsers' = 0
    /\ links' = <<>>
    /\ article_urls' = <<>>
    /\ input_to_base' = fromkeys
    /\ log' = <<>>
    /\ pc' = "ready"
    /\ UNCHANGED <<db, extraction, run>>
    /\ UNCHANGED aside

Next ==
    \/ create_content_begin
    \/ link
    \/ manage_priority_raises
    \/ extract
    \/ summarize
    \/ summarize_raises
    \/ write
    \/ write_raises
    \/ sleep
    \/ close_connection
    \/ terminate
    \/ main

Spec == Init /\ [][Next]_vars

\* ------------------------------------------- cycles over the same homepage
\* The homepage carries the same links in every cycle, and a process
\* remembers nothing of the one before it: `resumed` records for the
\* observer that the process before this one raised or was killed.
InitResume ==
    /\ InitPipeline
    /\ homepage \in Listings
    /\ resumed = FALSE
    /\ site = RTVSLO
    /\ soup = NoneStr
    /\ called = "none"
    /\ returned = NoneStr

\* create_content, line 20: the homepage is read and lists the same links
create_content_same_links ==
    /\ pc \in {"ready", "closed"}
    /\ links' = homepage
    /\ article_urls' = homepage
    /\ pc' = "loop"
    /\ log' = <<>>
    /\ input_to_base' = fromkeys
    /\ resumed' = (pc = "ready" /\ resumed)
    /\ UNCHANGED <<db, news_scraper, connOpen, browsers, extraction, run>>
    /\ UNCHANGED <<homepage, site, soup, called, returned>>

\* __main__ of the process started after the one before it has ended
main_restart ==
    /\ pc \in {"closed", "aborted", "terminated"}
    /\ news_scraper' = news_scraper_factory(RTVSLO).obj
    /\ connOpen' = TRUE
    /\ browsers' = 0
    /\ links' = <<>>
    /\ article_urls' = <<>>
    /\ input_to_base' = fromkeys
    /\ log' = <<>>
    /\ pc' = "ready"
    /\ resumed' = (pc \in {"aborted", "terminated"})
    /\ UNCHANGED <<db, extraction, run>>
    /\ UNCHANGED <<homepage, site, soup, called, returned>>

NextResume ==
    \/ create_content_same_links
    \/ link
    \/ manage_priority_raises
    \/ extract
    \/ summarize
    \/ summarize_raises
    \/ write
    \/ write_raises
    \/ sleep
    \/ close_connection
    \/ terminate
    \/ main_restart

SpecResume == InitResume /\ [][NextResume]_vars

TypeOK ==
    /\ pc \in {"ready", "loop", "extract", "summarize", "write", "sleep",
               "closed", "aborted", "terminated"}
    /\ connOpen \in Bool
    /\ browsers \in 0..MaxLinks
    /\ Len(article_urls) <= MaxLinks
    /\ \A u \in URLs : extraction[u] \in {"never", "failed", "raised", "ok"}
    /\ \A u \in URLs : run[u] \in {None} \cup 0..MaxRun

\* ----------------------------------------------------------------- claims
\* positions of the log where `op` was called for URL u
Calls(op, u) == { i \in 1..Len(log) : log[i][1] = op /\ log[i][2] = u }

\* u had a row when this cycle's manage_priority ran for it
FoundStored(u) == \E i \in Calls("decide", u) : log[i][3] # None

\* the rule table of the priority engine, row by row
RuleTable(current_priority, is_freshest) ==
    CASE is_freshest -> 0
      [] ~is_freshest /\ current_priority = None -> 2
      [] ~is_freshest /\ current_priority = 0 -> 1
      [] ~is_freshest /\ current_priority = 1 -> 2
      [] ~is_freshest /\ current_priority = 2 -> 2

\* C1: a URL never has more than one row; a cycle that finds a URL stored
\* makes at most one priority update for it, no insert and no Summarizer
\* call for it, and is never in the middle of processing it.
C1_Idempotence ==
    \A u \in URLs :
        /\ Len(db[u]) <= 1
        /\ Cardinality(Calls("update_priority", u)) <= 1
        /\ Cardinality(Calls("write_to_database", u)) <= 1
        /\ FoundStored(u) =>
              /\ Calls("write_to_database", u) = {}
              /\ Calls("summarize", u) = {}
        /\ (pc \in {"extract", "summarize", "write"} /\ url = u) => db[u] = <<>>

\* C1 witness: a cycle ended in which a URL stored by an earlier cycle was
\* listed again and got its priority update
C1_Witness ==
    /\ pc = "closed"
    /\ \E u \in URLs :
          /\ FoundStored(u)
          /\ Calls("update_priority", u) # {}
          /\ Len(db[u]) = 1

\* the step is an invocation of content extraction
ExtractStep == pc = "extract" /\ pc' \in {"loop", "summarize", "aborted"}

\* C2 (as stated): content extraction is invoked at most once per URL, also
\* after an extraction that reported failure.
C2_ExtractAtMostOnce == [][ExtractStep => extraction[url] = "never"]_vars

\* C2 (amended): content extraction is never invoked for a URL that has a
\* row, and a URL with a row was extracted successfully.
C2_NoExtractOnceStored ==
    [][\A u \in URLs :
          Len(db[u]) > 0 =>
              /\ extraction[u] = "ok"
              /\ ~(ExtractStep /\ url = u)
              /\ extraction'[u] = extraction[u]]_vars

\* C2 witness: a stored URL was listed again and passed without extraction
C2_Witness ==
    \E u \in URLs :
        /\ Calls("update_priority", u) # {}
        /\ Calls("extract", u) = {}
        /\ extraction[u] = "ok"
        /\ Len(db[u]) = 1

\* the skip substring news_scraper_factory configures (line 28)
configured_skip_substring == <<"/oglasno-sporocilo/">>

\* C3: a link whose URL contains the configured skip substring causes no
\* priority decision, no extraction, no Summarizer call, no insert and no
\* priority update.
C3_SkipSubstring ==
    \A i \in 1..Len(log) :
        Contains(configured_skip_substring, log[i][2]) => log[i][1] = "skip"

\* C4: determine_new_priority agrees with the rule table on every input, and
\* so does every decision a cycle took.
C4_RuleTable ==
    /\ \A c \in {None, 0, 1, 2}, f \in Bool :
          determine_new_priority(c, f) = RuleTable(c, f)
    /\ \A i \in 1..Len(log) :
          log[i][1] = "decide" => log[i][5] = RuleTable(log[i][3], log[i][4])

\* C4 witness: a cycle decided for a stored priority 2, not freshest (rule 5)
\* and for a URL never seen, freshest (rule 1)
C4_Witness ==
    /\ \E i \in 1..Len(log) :
          /\ log[i][1] = "decide"
          /\ log[i][3] = 2 /\ log[i][4] = FALSE /\ log[i][5] = 2
    /\ \E i \in 1..Len(log) :
          /\ log[i][1] = "decide"
          /\ log[i][3] = None /\ log[i][4] = TRUE /\ log[i][5] = 0

\* C5: a stored URL listed freshest has priority 0; listed non-freshest by
\* the cycles after that, it has priority 1 after the first, 2 after the
\* second and 2 after every later one; a stored priority 0 always comes from
\* a freshest listing.
C5_DecaySequence ==
    \A u \in URLs :
        Len(db[u]) > 0 =>
            /\ run[u] # None => db[u][1].Priority = Min(run[u], 2)
            /\ db[u][1].Priority = 0 => run[u] = 0

\* C5 witness: a URL went 0, 1, 2 and was listed non-freshest once more
C5_Witness ==
    \E u \in URLs :
        /\ run[u] = MaxRun
        /\ \E i \in Calls("decide", u) :
              log[i][3] = 2 /\ log[i][4] = FALSE /\ log[i][5] = 2
        /\ db[u][1].Priority = 2

\* C6: every insert of a cycle is the only row of its URL, the URL had no
\* row before, its extraction and summarization succeeded, and the row's
\* priority is 0 for a link tagged freshest and 2 otherwise.
C6_InsertOnce ==
    \A i \in 1..Len(log) :
        log[i][1] = "write_to_database" =>
            LET u == log[i][2]
            IN  /\ Len(db[u]) = 1
                /\ db[u][1].Url = u
                /\ Cardinality(Calls("write_to_database", u)) = 1
                /\ \E j \in Calls("decide", u) :
                      /\ j < i
                      /\ log[j][3] = None
                      /\ log[i][3] = (IF log[j][4] THEN 0 ELSE 2)
                      /\ db[u][1].Priority = (IF log[j][4] THEN 0 ELSE 2)
                /\ \E k \in Calls("extract", u) : k < i /\ log[k][3]
                /\ \E k \in Calls("summarize", u) : k < i

\* C6 witness: a cycle over {A: freshest, B: not}, both new, has ended with
\* A inserted at priority 0 and B at priority 2
C6_Witness ==
    /\ pc = "closed"
    /\ \E a, b \in URLs :
          /\ a # b
          /\ \E i \in Calls("write_to_database", a) : log[i][3] = 0
          /\ \E i \in Calls("write_to_database", b) : log[i][3] = 2
          /\ db[a][1].Priority = 0
          /\ db[b][1].Priority = 2

\* C7: when the loop takes a link whose URL has a row, the step either
\* raises (table untouched) or leaves the row with the rule table's priority
\* for (stored priority, freshest) and continues with the next link, without
\* extraction and without starting a record.
C7_StoredUpdateOnly ==
    [][(pc = "loop" /\ article_urls # <<>> /\ db[url] # <<>>) =>
          \/ pc' \in {"aborted", "terminated"} /\ db' = db
          \/ /\ pc' = "loop"
             /\ article_urls' = Tail(article_urls)
             /\ Len(db'[url]) = 1
             /\ db'[url][1].Priority =
                   RuleTable(db[url][1].Priority, priority)
             /\ extraction' = extraction
             /\ input_to_base' = input_to_base
             /\ browsers' = browsers]_vars

\* C7 witness: a URL stored with priority 0 was listed non-freshest and now
\* has priority 1
C7_Witness ==
    \E u \in URLs :
        /\ \E i \in Calls("decide", u) :
              log[i][3] = 0 /\ log[i][4] = FALSE /\ log[i][5] = 1
        /\ Calls("update_priority", u) # {}
        /\ Calls("extract", u) = {}
        /\ db[u][1].Priority = 1

\* C8: after a reported extraction failure for a URL the cycle has made no
\* Summarizer call, insert or priority update for it and it has no row; the
\* next time the loop takes that URL it goes to extraction again.
C8_FailureWritesNothing ==
    /\ [](\A i \in 1..Len(log) :
             (log[i][1] = "extract" /\ ~log[i][3]) =>
                 LET u == log[i][2]
                 IN  /\ db[u] = <<>>
                     /\ Calls("summarize", u) = {}
                     /\ Calls("write_to_database", u) = {}
                     /\ Calls("update_priority", u) = {})
    /\ [][(/\ pc = "loop" /\ article_urls # <<>>
           /\ extraction[url] = "failed"
           /\ pc' \notin {"aborted", "terminated"}) =>
              /\ db[url] = <<>>
              /\ pc' = "extract"
              /\ article_urls' = article_urls
              /\ db' = db]_vars

\* C8 witness: a URL whose extraction failed in an earlier cycle is at
\* extraction again
C8_Witness ==
    /\ pc = "extract"
    /\ extraction[url] = "failed"
    /\ db[url] = <<>>

\* the cycle has finished with the link of URL u
Handled(u) ==
    \/ Calls("skip", u) # {}
    \/ Calls("update_priority", u) # {}
    \/ \E i \in Calls("extract", u) : ~log[i][3]
    \/ Calls("sleep", u) # {}

\* C9: a reported extraction failure continues the loop with the next link;
\* while a cycle has not raised or been killed every discovered link is
\* handled or still ahead, a cycle only stops on an exception, and a cycle
\* that has ended has handled every link and closed the connection.
C9_FailureNotFatal ==
    /\ []((pc \in {"loop", "extract", "summarize", "write", "sleep",
                   "closed"}) =>
             \A k \in 1..Len(links) :
                 \/ Handled(links[k][1])
                 \/ \E j \in 1..Len(article_urls) : article_urls[j] = links[k])
    /\ [](pc = "closed" =>
             /\ article_urls = <<>>
             /\ ~connOpen
             /\ log[Len(log)][1] = "close_connection")
    /\ [](pc = "aborted" => log[Len(log)][1] = "raise")
    /\ [][(ExtractStep /\ extraction'[url] = "failed") =>
              /\ pc' = "loop"
              /\ article_urls' = Tail(article_urls)
              /\ connOpen' = connOpen]_vars

\* C9 witness: the first link's extraction failed, the second link was
\* processed up to its insert, and the cycle has closed the connection
C9_Witness ==
    /\ pc = "closed"
    /\ Len(links) = 2
    /\ \E i \in Calls("extract", links[1][1]) : ~log[i][3]
    /\ Calls("write_to_database", links[2][1]) # {}

\* C10: an exception is the last call of its cycle: the table is as it was
\* before the failing call, the failing link has no insert, the links after
\* it stay untouched, and only a new process follows.
C10_FailureAborts ==
    /\ [](\A i \in 1..(Len(log) - 1) : log[i][1] # "raise")
    /\ [](pc = "aborted" =>
             /\ article_urls # <<>>
             /\ log[Len(log)][1] = "raise"
             /\ log[Len(log)][2] = url
             /\ Calls("write_to_database", url) = {}
             /\ \A k \in 2..Len(article_urls) :
                   \A i \in 1..Len(log) : log[i][2] # article_urls[k][1])
    /\ [][(pc' = "aborted" /\ pc # "aborted") =>
              db' = db /\ article_urls' = article_urls]_vars
    /\ [][pc = "aborted" => (pc' = "ready" /\ db' = db)]_vars

\* C10 witness: the Summarizer raised for the first of two links
C10_Witness ==
    /\ pc = "aborted"
    /\ Len(article_urls) = 2
    /\ log[Len(log)][3] = "get_headline_and_summary"

\* ------------------------------------------------ the scraper's functions
\* The functions of the scraper applied to the site names and to the
\* article documents below.
Sites == {RTVSLO, "r", "t", "v", "s", "l", "o", "", "delo", "24ur"}

match_1800 ==
    << <<"0", "4">>, <<"M", "a", "r", "e", "c">>, <<"2", "0", "2", "4">>,
       <<"1", "8">>, <<"0", "0">> >>
match_no_month ==
    << <<"3">>, <<"m", "a", "r">>, <<"2", "0", "2", "4">>,
       <<"1", "0">>, <<"1", "5">> >>
match_no_hour ==
    << <<"3">>, <<"m", "a", "r", "e", "c">>, <<"2", "0", "2", "4">>,
       <<"2", "5">>, <<"1", "5">> >>

\* the publish-meta div: missing, or its date matches
Metas ==
    { [meta |-> FALSE, dates |-> <<>>],
      [meta |-> TRUE, dates |-> <<>>],
      [meta |-> TRUE, dates |-> <<match_1015>>],
      [meta |-> TRUE, dates |-> <<match_1800>>],
      [meta |-> TRUE, dates |-> <<match_1015, match_1440>>],
      [meta |-> TRUE, dates |-> <<match_1440, match_1015>>],
      [meta |-> TRUE, dates |-> <<match_1015, match_1440, match_1800>>],
      [meta |-> TRUE, dates |-> <<match_no_month, match_1440>>],
      [meta |-> TRUE, dates |-> <<match_no_month>>],
      [meta |-> TRUE, dates |-> <<match_no_hour>>] }

\* .article-header: absent, empty, with text
Headers == { NoneStr, <<>>, <<"h">> }

\* .article-body: absent, without <p>, with <p> elements
Bodies == { <<NoneStr>>, <<>>, << <<>> >>, << <<"p">> >>, << <<"p">>, <<"q">> >> }

\* the <img> elements of one region
Imgs ==
    { <<>>,
      << [class |-> FALSE, src |-> <<"https://img/", "1">>] >>,
      << [class |-> TRUE, src |-> <<"https://img/", "2">>],
         [class |-> FALSE, src |-> <<"https://img/", "3">>] >>,
      << [class |-> FALSE, src |-> <<"data:image", "/png;base64">>],
         [class |-> FALSE, src |-> NoneStr] >> }

Documents ==
    { [header |-> h, body |-> b, meta |-> m.meta, dates |-> m.dates,
       header_imgs |-> hi, body_imgs |-> bi] :
        h \in Headers, b \in Bodies, m \in Metas, hi \in Imgs, bi \in Imgs }

InitScraper ==
    /\ InitPipeline
    /\ homepage = <<>>
    /\ resumed = FALSE
    /\ site \in Sites
    /\ soup \in { d \in Documents :
                    /\ d.header = NoneStr => d.header_imgs = <<>>
                    /\ d.body = <<NoneStr>> => d.body_imgs = <<>> }
    /\ called = "none"
    /\ returned = NoneStr

call_news_scraper_factory ==
    /\ called' = "news_scraper_factory"
    /\ returned' = news_scraper_factory(site)
    /\ UNCHANGED <<site, soup, homepage, resumed>>
    /\ UNCHANGED pipeline

call_extract_text_from_url ==
    /\ called' = "extract_text_from_url"
    /\ returned' = extract_text_from_url(soup)
    /\ UNCHANGED <<site, soup, homepage, resumed>>
    /\ UNCHANGED pipeline

call_extract_datetime ==
    /\ called' = "extract_datetime"
    /\ returned' = extract_datetime(soup)
    /\ UNCHANGED <<site, soup, homepage, resumed>>
    /\ UNCHANGED pipeline

call_download_imgs_from_url ==
    /\ called' = "download_imgs_from_url"
    /\ returned' = download_imgs_from_url(soup)
    /\ UNCHANGED <<site, soup, homepage, resumed>>
    /\ UNCHANGED pipeline

NextScraper ==
    \/ call_news_scraper_factory
    \/ call_extract_text_from_url
    \/ call_extract_datetime
    \/ call_download_imgs_from_url

SpecScraper == InitScraper /\ [][NextScraper]_vars

\* C11: a cycle that follows an interrupted one over the same links and ends
\* normally leaves exactly one record for every link whose extraction
\* succeeded: a link that already had its record is only updated and gets no
\* second record, a link that had none is inserted once; a link without a
\* record at the end is one whose extraction reported failure.
C11_ResumeCompletes ==
    (pc = "closed" /\ resumed) =>
        \A k \in 1..Len(links) :
          LET u == links[k][1]
          IN  /\ Len(db[u]) <= 1
              /\ FoundStored(u) =>
                    Calls("write_to_database", u) = {} /\ Len(db[u]) = 1
              /\ ~FoundStored(u) =>
                    \/ /\ Cardinality(Calls("write_to_database", u)) = 1
                       /\ Len(db[u]) = 1
                    \/ /\ \E i \in Calls("extract", u) : log[i][3] = FALSE
                       /\ Calls("write_to_database", u) = {}
                       /\ Len(db[u]) = 0

\* a resumed cycle has ended normally: its first link had its record from
\* before the interruption, its second link was inserted now
C11_Witness ==
    /\ pc = "closed"
    /\ resumed
    /\ Len(links) = 2
    /\ FoundStored(links[1][1])
    /\ Calls("write_to_database", links[2][1]) # {}
    /\ Len(db[links[2][1]]) = 1

\* C12: news_scraper_factory raises for every site that is not the supported
\* one; it never returns without a scraper.
C12_UnsupportedSiteRaises ==
    (called = "news_scraper_factory" /\ site # RTVSLO) =>
        returned.kind = "ValueError"

\* C13: a link whose text is found but whose timestamp is not (the date
\* pattern matches nowhere, or the publish-meta region is missing) is
\* skipped: no record is ever stored without a timestamp, and the missing
\* timestamp never leaves create_content as an exception.
C13_TimestampMissSkipped ==
    /\ \A u \in URLs : \A i \in 1..Len(db[u]) : db[u][i].DateTime # NoneDate
    /\ \A i \in 1..Len(log) :
          log[i][1] = "raise" => log[i][3] # "extract_datetime"

\* C14: within a cycle the pause comes after every insert, before anything
\* else is done, and nowhere else: every pause directly follows the insert
\* of the same link, and every insert is directly followed by the pause
\* (or the pause is what the cycle does next).
C14_PauseAfterInsertOnly ==
    \A i \in 1..Len(log) :
        /\ log[i][1] = "sleep" =>
              /\ i > 1
              /\ log[i - 1][1] = "write_to_database"
              /\ log[i - 1][2] = log[i][2]
        /\ log[i][1] = "write_to_database" =>
              IF i = Len(log) THEN pc = "sleep"
              ELSE log[i + 1][1] = "sleep" /\ log[i + 1][2] = log[i][2]

\* a cycle has inserted and paused for one link, and went past a stored
\* link without a pause
C14_Witness ==
    /\ pc = "closed"
    /\ \E u \in URLs : Calls("sleep", u) # {}
    /\ \E i \in 1..(Len(log) - 1) :
          log[i][1] = "update_priority" /\ log[i + 1][1] # "sleep"

\* C15: every cycle, a second create_content on the same object included,
\* has the connection open whenever it is about to call the Repository:
\* manage_priority for the next link, or the insert.
C15_RepositoryOnOpenConnection ==
    /\ (pc = "loop" /\ article_urls # <<>> /\ ~skip_link(news_scraper, url))
          => connOpen
    /\ pc = "write" => connOpen

\* C16: extract_text_from_url reports success only with non-empty text; when
\* no configured region yields text it returns empty text and failure.
C16_SuccessCarriesText ==
    called = "extract_text_from_url" =>
        /\ returned.success => returned.text # <<>>
        /\ ~returned.success => returned.text = <<>>

\* C17: on a document with a publish-meta region, extract_datetime returns
\* None when the date pattern matches nowhere, the timestamp of the match
\* when there is one, and the timestamp of the second match when there are
\* more; matches at 10:15 and then 14:40 give 14:40.
C17_SecondMatchPreferred ==
    (called = "extract_datetime" /\ soup.meta) =>
        LET matches == soup.dates
        IN  /\ matches = <<>> =>
                  returned = [raised |-> FALSE, value |-> NoneDate]
            /\ Len(matches) = 1 => returned = format_date(matches[1])
            /\ Len(matches) > 1 => returned = format_date(matches[2])
            /\ matches = <<match_1015, match_1440>> =>
                  returned = [raised |-> FALSE, value |-> <<2024, 3, 3, 14, 40>>]
            /\ matches = <<match_1800>> =>
                  returned = [raised |-> FALSE, value |-> <<2024, 3, 4, 18, 0>>]

\* extract_datetime has returned a timestamp for a document with at least
\* two matches that differ
C17_Witness ==
    /\ called = "extract_datetime"
    /\ soup.meta
    /\ Len(soup.dates) > 1
    /\ soup.dates[1] # soup.dates[2]
    /\ ~returned.raised
    /\ returned.value # NoneDate

\* C18: download_imgs_from_url requests exactly the images of all the
\* configured regions of the document, the last one and the ones before it,
\* that have no class attribute and a source that is no data-URI.
C18_ImagesOfEveryRegion ==
    called = "download_imgs_from_url" =>
        LET in_regions ==
                (IF soup.header = NoneStr THEN <<>> ELSE soup.header_imgs) \o
                (IF soup.body = <<NoneStr>> THEN <<>> ELSE soup.body_imgs)
            expected ==
                { in_regions[i].src : i \in
                    { j \in 1..Len(in_regions) :
                        /\ ~in_regions[j].class
                        /\ in_regions[j].src # NoneStr
                        /\ Head(in_regions[j].src) # "data:image" } }
        IN  { returned[i] : i \in 1..Len(returned) } = expected

\* C19: starting from the empty table, whatever the cycles, the freshness
\* tags and the extraction outcomes were, the priority of every stored
\* record is 0, 1 or 2.
C19_PriorityRange ==
    \A u \in URLs : \A i \in 1..Len(db[u]) : db[u][i].Priority \in {0, 1, 2}

\* records with the priorities 0, 1 and 2 are stored at the same time
C19_Witness ==
    \A p \in {0, 1, 2} :
        \E u \in URLs : db[u] # <<>> /\ db[u][1].Priority = p

\* C20: the browser load_url opens for a link is quit by the time
\* get_text_and_save_imgs_from_url is left, whether extraction succeeded or
\* failed: between links and at the end of the cycle no browser is open.
C20_BrowserQuitPerLink ==
    pc \in {"loop", "summarize", "write", "sleep", "closed"} => browsers = 0

\* C21: no step of a cycle deletes a record or changes the url, title,
\* summary, timestamp or full text of a stored record, and the records of
\* a URL that is not among the links of the cycle stay as they are.
C21_Frame ==
    [][\A u \in URLs :
          /\ Len(db'[u]) >= Len(db[u])
          /\ \A i \in 1..Len(db[u]) :
                db'[u][i] = [db[u][i] EXCEPT !.Priority = db'[u][i].Priority]
          /\ (\A k \in 1..Len(links) : links[k][1] # u) => db'[u] = db[u]
      ]_vars

\* a cycle has ended that changed the priority of a stored link while the
\* record of another URL, not among its links, was in the table
C21_Witness ==
    /\ pc = "closed"
    /\ \E u \in URLs :
          /\ db[u] # <<>>
          /\ \A k \in 1..Len(links) : links[k][1] # u
    /\ \E v \in URLs : \E i \in Calls("decide", v) :
          /\ log[i][3] # None
          /\ log[i][3] # log[i][5]
          /\ Calls("update_priority", v) # {}

====
